---- MODULE Spec2Model ----
(***************************************************************************)
(* State-machine model of src/script.js, the IoT signal transformation     *)
(* visualisation: the AppState object, the browser's table of live         *)
(* interval timers, the pending transition timeouts, the page visibility,  *)
(* and the frames that updateDisplay writes to the page.                   *)
(*                                                                         *)
(* Numbers are fixed point: temperatures are held in hundredths of a       *)
(* degree and voltages in millivolts, so that the linear map and the ADC   *)
(* quantisation of updateTemperatureData are exact integer arithmetic.     *)
(* Math.random() returns k / RandSteps for k in 0..RandSteps-1.            *)
(***************************************************************************)
EXTENDS Integers, Sequences, FiniteSets, TLC

VARIABLES
    pc,          \* "loading" before init() has run, "ready" after
    hidden,      \* document.hidden
    stageCards,  \* number of .stage-card elements of the document
    Config,      \* the Config object, as far as it is varied: [ADC_BITS]; the
                 \* other fields are the shipped constants below
    AppState,    \* the AppState object: currentMode, updateIntervals, data
    intervals,   \* the browser's live interval timers: records [id, kind]
    timeouts,    \* pending setTimeout callbacks of animateModeTransition
    modeUi,      \* the mode the labels, buttons and panels were last set for
    emitted,     \* the frames written by updateDisplay during the last step
    last,        \* the handler that ran in the last step
    period       \* the sampling period in progress: "idle" when the PIR
                 \* callback has closed it or the timers were just started,
                 \* else what the temperature callback that opened it did,
                 \* "emitted" a frame or "silent"

vars == <<pc, hidden, stageCards, Config, AppState, intervals, timeouts, modeUi, emitted, last, period>>

(***************************************************************************)
(* Bounds of the model.                                                    *)
(***************************************************************************)
MaxStages == 3
RandSteps == 3
MaxTimeouts == 3
EncSteps == 50

(***************************************************************************)
(* Config (src/script.js lines 29-38).                                     *)
(***************************************************************************)
ADC_BITS == 12
ADC_MAX == 4095
VOLTAGE_REF_mV == 3300
TEMP_MIN == 20
TEMP_MAX == 25
PIR_DETECTION_CHANCE_PCT == 60

Modes == {"analog", "digital"}
Kinds == {"temperature", "pir", "animation"}
Randoms == 0 .. (RandSteps - 1)
null == 0

(***************************************************************************)
(* Number formatting.                                                      *)
(***************************************************************************)
\* Mutant of toString2: the radix is missing, the digits are decimal.
RECURSIVE toString10(_)
toString10(n) ==
    IF n < 10 THEN <<ToString(n)>>
    ELSE Append(toString10(n \div 10), ToString(n % 10))

\* Number.prototype.toString(2) of a non-negative integer, as a sequence of
\* the characters "0" and "1".
RECURSIVE toString2(_)
toString2(n) ==
    IF n < 2 THEN <<ToString(n)>>
    ELSE Append(toString2(n \div 2), ToString(n % 2))

\* String.prototype.padStart(len, '0') on a sequence of characters.
RECURSIVE padStart(_, _)
padStart(s, len) ==
    IF Len(s) >= len THEN s ELSE padStart(<<"0">> \o s, len)

\* x.toFixed(1) of a value held in hundredths: rounds to the nearest tenth,
\* ties up.  (toFixed rounds the double: a decimal tie that is no binary
\* fraction lies just above or below the tie as a double.  The samples of
\* RandSteps = 3, 4, 5 and of EncSteps = 50 have no such tie.)
toFixed1(centi) ==
    LET n == (centi + 5) \div 10
    IN  ToString(n \div 10) \o "." \o ToString(n % 10)

\* x.toFixed(2) of a value held in thousandths: rounds to the nearest
\* hundredth, ties up.
toFixed2(milli) ==
    LET n == (milli + 5) \div 10
    IN  ToString(n \div 100) \o "." \o ToString((n % 100) \div 10) \o ToString(n % 10)

(***************************************************************************)
(* Sampling and encoding.                                                  *)
(***************************************************************************)
\* Mutant of updateTemperatureData: the ADC value is not recomputed.
updateTemperatureDataStaleCode(d, k) ==
    LET temperature == TEMP_MIN * 100 + (k * (TEMP_MAX - TEMP_MIN) * 100) \div RandSteps
        voltage == 2000 + (temperature - TEMP_MIN * 100)
    IN  [d EXCEPT !.temperature = temperature,
                  !.voltage = voltage]

\* Mutant of updateTemperatureDataOf: Math.ceil instead of Math.floor.
updateTemperatureDataCeil(d, k, steps) ==
    LET temperature == TEMP_MIN * 100 + (k * (TEMP_MAX - TEMP_MIN) * 100) \div steps
        voltage == 2000 + (temperature - TEMP_MIN * 100)
        adcValue == (voltage * ADC_MAX + VOLTAGE_REF_mV - 1) \div VOLTAGE_REF_mV
    IN  [d EXCEPT !.temperature = temperature,
                  !.voltage = voltage,
                  !.adcValue = adcValue]

\* Mutant of updateTemperatureDataOf: the voltage is not divided by
\* VOLTAGE_REF before it is scaled to the ADC range.
updateTemperatureDataNoRef(d, k, steps) ==
    LET temperature == TEMP_MIN * 100 + (k * (TEMP_MAX - TEMP_MIN) * 100) \div steps
        voltage == 2000 + (temperature - TEMP_MIN * 100)
        adcValue == (voltage * ADC_MAX) \div 1000
    IN  [d EXCEPT !.temperature = temperature,
                  !.voltage = voltage,
                  !.adcValue = adcValue]

\* updateTemperatureData with Math.random() = k / steps.  The slope of
\* 0.1 V per degree is 1 mV per hundredth of a degree; Math.floor of the
\* quotient is the integer division.
updateTemperatureDataOf(d, k, steps) ==
    LET temperature == TEMP_MIN * 100 + (k * (TEMP_MAX - TEMP_MIN) * 100) \div steps
        voltage == 2000 + (temperature - TEMP_MIN * 100)
        adcValue == (voltage * ADC_MAX) \div VOLTAGE_REF_mV
    IN  [d EXCEPT !.temperature = temperature,
                  !.voltage = voltage,
                  !.adcValue = adcValue]

updateTemperatureData(d, k) == updateTemperatureDataOf(d, k, RandSteps)

\* updatePIRData with Math.random() = k / steps.
updatePIRDataOf(d, k, steps) ==
    [d EXCEPT !.pirDetected = (k * 100 < PIR_DETECTION_CHANCE_PCT * steps)]

updatePIRData(d, k) == updatePIRDataOf(d, k, RandSteps)

(***************************************************************************)
(* Frames: what one run of updateDisplay writes to the page.               *)
(***************************************************************************)
updateAnalogDisplay(d) ==
    LET temp == toFixed1(d.temperature)
        voltage == toFixed2(d.voltage)
        adc == d.adcValue
        binary == padStart(toString2(adc), Config.ADC_BITS)
    IN  [branch |-> "analog",
         sensorValue |-> temp \o "C",
         sensorVoltage |-> voltage \o "V",
         sensorState |-> "Actif",
         adcValue |-> adc,
         binaryValue |-> binary,
         jsonTemp |-> temp,
         appDisplay |-> temp \o "C"]

\* Mutant of updateDigitalDisplay: the payload bit is stuck at '1'.
updateDigitalDisplayStuckBit(d) ==
    LET detected == d.pirDetected
        state == IF detected THEN "HIGH" ELSE "LOW"
        voltage == IF detected THEN "3.3V" ELSE "0V"
        status == IF detected THEN "Mouvement" ELSE "Aucun"
    IN  [branch |-> "digital",
         sensorValue |-> status,
         sensorVoltage |-> voltage,
         sensorState |-> state,
         gpioState |-> state,
         gpioVoltage |-> voltage,
         pirBinary |-> "1",
         pirPayloadBit |-> "1",
         appDisplay |-> status,
         color |-> IF detected THEN "#10b981" ELSE "#94a3b8"]

updateDigitalDisplay(d) ==
    LET detected == d.pirDetected
        state == IF detected THEN "HIGH" ELSE "LOW"
        voltage == IF detected THEN "3.3V" ELSE "0V"
        binary == IF detected THEN "1" ELSE "0"
        status == IF detected THEN "Mouvement" ELSE "Aucun"
    IN  [branch |-> "digital",
         sensorValue |-> status,
         sensorVoltage |-> voltage,
         sensorState |-> state,
         gpioState |-> state,
         gpioVoltage |-> voltage,
         pirBinary |-> binary,
         pirPayloadBit |-> binary,
         appDisplay |-> status,
         color |-> IF detected THEN "#10b981" ELSE "#94a3b8"]

\* Mutant of updateDisplay: the analog branch is taken whatever the mode.
updateDisplayAnalogOnly(A) ==
    updateAnalogDisplay(A.data)

updateDisplay(A) ==
    IF A.currentMode = "analog"
    THEN updateAnalogDisplay(A.data)
    ELSE updateDigitalDisplay(A.data)

(***************************************************************************)
(* Timers.  A world w is the pair of AppState and the browser's table of   *)
(* live interval timers; the helpers below map a world to a world.         *)
(***************************************************************************)
World == [AppState |-> AppState, intervals |-> intervals]

\* The browser never hands out the id of a timer twice.  The model reuses an
\* id once nothing can refer to it any more: a fresh id for the handle of
\* `kind` is the least id that is neither live nor held by another handle.
UsedIds(w, kind) ==
    {t.id : t \in w.intervals}
        \cup {w.AppState.updateIntervals[k] : k \in Kinds \ {kind}}

NewId(w, kind) ==
    CHOOSE i \in 1 .. (Cardinality(UsedIds(w, kind)) + 1) :
        /\ i \notin UsedIds(w, kind)
        /\ \A j \in 1 .. (i - 1) : j \in UsedIds(w, kind)

\* AppState.updateIntervals[kind] = setInterval(callback of kind, ...)
setInterval(w, kind) ==
    LET id == NewId(w, kind)
    IN  [AppState |-> [w.AppState EXCEPT !.updateIntervals[kind] = id],
         intervals |-> w.intervals \cup {[id |-> id, kind |-> kind]}]

\* clearInterval(id): cancels the live timer with that id, if there is one.
clearInterval(live, id) == {t \in live : t.id # id}

startRealTimeUpdates(w, kT, kP) ==
    LET d1 == updateTemperatureData(w.AppState.data, kT)
        d2 == updatePIRData(d1, kP)
        w1 == [w EXCEPT !.AppState.data = d2]
        w2 == setInterval(w1, "temperature")
    IN  setInterval(w2, "pir")

startStageAnimations(w) ==
    setInterval([w EXCEPT !.AppState.data.activeStage = 0], "animation")

\* cleanup: clearInterval on every non-null handle of updateIntervals.  The
\* handles themselves are left in place; animationFrameId is always null, so
\* cancelAnimationFrame is never reached.
cleanupIntervals(w) ==
    LET clear(live, kind) ==
            IF w.AppState.updateIntervals[kind] # null
            THEN clearInterval(live, w.AppState.updateIntervals[kind])
            ELSE live
    IN  [w EXCEPT !.intervals = clear(clear(clear(@, "temperature"), "pir"), "animation")]

\* Mutant of cycleActiveStage: the pointer is advanced without the modulo.
cycleActiveStageNoWrap(d, totalStages) ==
    [d EXCEPT !.activeStage = d.activeStage + 1]

\* Mutant of cycleActiveStage: the pointer skips a stage.
cycleActiveStageSkip(d, totalStages) ==
    [d EXCEPT !.activeStage = (d.activeStage + 2) % totalStages]

cycleActiveStage(d, totalStages) ==
    [d EXCEPT !.activeStage = (d.activeStage + 1) % totalStages]

(***************************************************************************)
(* Initial state: the script has been loaded, init() has not run yet.      *)
(***************************************************************************)
InitWith(adcBits) ==
    /\ pc = "loading"
    /\ Config = [ADC_BITS |-> adcBits]
    /\ hidden \in BOOLEAN
    /\ stageCards \in 1 .. MaxStages
    /\ AppState = [currentMode |-> "analog",
                   updateIntervals |-> [temperature |-> null, pir |-> null, animation |-> null],
                   data |-> [temperature |-> 2250,
                             voltage |-> 2450,
                             adcValue |-> 3041,
                             pirDetected |-> TRUE,
                             activeStage |-> 0]]
    /\ intervals = {}
    /\ timeouts = 0
    /\ modeUi = "html"
    /\ emitted = <<>>
    /\ last = [op |-> "load", mode |-> "analog", from |-> "analog"]
    /\ period = "idle"

Init == InitWith(ADC_BITS)

Did(op) == [op |-> op, mode |-> AppState.currentMode, from |-> AppState.currentMode]

(***************************************************************************)
(* Handlers.                                                               *)
(***************************************************************************)
\* init(): startRealTimeUpdates, startStageAnimations, updateDisplay.
init ==
    /\ pc = "loading"
    /\ \E kT \in Randoms, kP \in Randoms :
         LET w == startStageAnimations(startRealTimeUpdates(World, kT, kP))
         IN  /\ AppState' = w.AppState
             /\ intervals' = w.intervals
             /\ emitted' = <<updateDisplay(w.AppState)>>
    /\ pc' = "ready"
    /\ last' = Did("init")
    /\ period' = "idle"
    /\ UNCHANGED <<Config, hidden, stageCards, timeouts, modeUi>>

\* Mutant of switchMode: the early return on the active mode is missing.
switchModeNoReturn(mode) ==
    /\ pc = "ready"
    /\ last' = [op |-> "switchMode", mode |-> mode, from |-> AppState.currentMode]
    /\ emitted' = <<>>
    /\ timeouts + stageCards <= MaxTimeouts
    /\ AppState' = [AppState EXCEPT !.currentMode = mode]
    /\ modeUi' = IF mode = "analog" THEN "analog" ELSE "digital"
    /\ timeouts' = timeouts + stageCards
    /\ UNCHANGED <<Config, period, pc, hidden, stageCards, intervals>>

\* switchMode(mode): a click on a mode button, or window.IoTApp.switchMode.
\* The labels, buttons and panels are set by tests of mode === 'analog', so
\* any other value sets them as 'digital' does.
switchMode(mode) ==
    /\ pc = "ready"
    /\ last' = [op |-> "switchMode", mode |-> mode, from |-> AppState.currentMode]
    /\ emitted' = <<>>
    /\ IF AppState.currentMode = mode
       THEN UNCHANGED <<AppState, modeUi, timeouts>>
       ELSE /\ timeouts + stageCards <= MaxTimeouts
            /\ AppState' = [AppState EXCEPT !.currentMode = mode]
            /\ modeUi' = IF mode = "analog" THEN "analog" ELSE "digital"
            /\ timeouts' = timeouts + stageCards
    /\ UNCHANGED <<Config, period, pc, hidden, stageCards, intervals>>

\* A setTimeout callback of animateModeTransition runs.
transitionTimeout ==
    /\ timeouts > 0
    /\ timeouts' = timeouts - 1
    /\ emitted' = <<>>
    /\ last' = Did("transitionTimeout")
    /\ UNCHANGED <<Config, period, pc, hidden, stageCards, AppState, intervals, modeUi>>

\* Mutant of temperatureTick: the callback does not test the mode.
temperatureTickUnguarded ==
    /\ \E t \in intervals : t.kind = "temperature"
    /\ last' = [op |-> "temperatureTick", mode |-> AppState.currentMode,
                from |-> AppState.currentMode]
    /\ \E k \in Randoms :
         /\ AppState' = [AppState EXCEPT !.data = updateTemperatureData(@, k)]
         /\ emitted' = <<updateDisplay(AppState')>>
    /\ period' = "emitted"
    /\ UNCHANGED <<Config, pc, hidden, stageCards, intervals, timeouts, modeUi>>

\* The callback of a live temperature interval runs.
temperatureTick ==
    /\ \E t \in intervals : t.kind = "temperature"
    /\ last' = Did("temperatureTick")
    /\ IF AppState.currentMode = "analog"
       THEN \E k \in Randoms :
              /\ AppState' = [AppState EXCEPT !.data = updateTemperatureData(@, k)]
              /\ emitted' = <<updateDisplay(AppState')>>
       ELSE /\ UNCHANGED AppState
            /\ emitted' = <<>>
    /\ period' = IF emitted' = <<>> THEN "silent" ELSE "emitted"
    /\ UNCHANGED <<Config, pc, hidden, stageCards, intervals, timeouts, modeUi>>

\* The callback of a live PIR interval runs.
pirTick ==
    /\ \E t \in intervals : t.kind = "pir"
    /\ last' = Did("pirTick")
    /\ IF AppState.currentMode = "digital"
       THEN \E k \in Randoms :
              /\ AppState' = [AppState EXCEPT !.data = updatePIRData(@, k)]
              /\ emitted' = <<updateDisplay(AppState')>>
       ELSE /\ UNCHANGED AppState
            /\ emitted' = <<>>
    /\ period' = "idle"
    /\ UNCHANGED <<Config, pc, hidden, stageCards, intervals, timeouts, modeUi>>

\* Mutant of animationTick: the callback also re-renders the sensor values.
animationTickRenders ==
    /\ \E t \in intervals : t.kind = "animation"
    /\ last' = [op |-> "animationTick", mode |-> AppState.currentMode,
                from |-> AppState.currentMode]
    /\ AppState' = [AppState EXCEPT !.data = cycleActiveStage(@, stageCards)]
    /\ emitted' = <<updateDisplay(AppState')>>
    /\ UNCHANGED <<Config, period, pc, hidden, stageCards, intervals, timeouts, modeUi>>

\* The callback of a live animation interval runs.
animationTick ==
    /\ \E t \in intervals : t.kind = "animation"
    /\ last' = Did("animationTick")
    /\ AppState' = [AppState EXCEPT !.data = cycleActiveStage(@, stageCards)]
    /\ emitted' = <<>>
    /\ UNCHANGED <<Config, period, pc, hidden, stageCards, intervals, timeouts, modeUi>>

\* visibilitychange with document.hidden true: cleanup().
visibilityHidden ==
    /\ pc = "ready"
    /\ ~hidden
    /\ hidden' = TRUE
    /\ intervals' = cleanupIntervals(World).intervals
    /\ emitted' = <<>>
    /\ last' = Did("visibilityHidden")
    /\ UNCHANGED <<Config, period, pc, stageCards, AppState, timeouts, modeUi>>

\* visibilitychange with document.hidden false: startRealTimeUpdates(),
\* startStageAnimations().
visibilityVisible ==
    /\ pc = "ready"
    /\ hidden
    /\ hidden' = FALSE
    /\ \E kT \in Randoms, kP \in Randoms :
         LET w == startStageAnimations(startRealTimeUpdates(World, kT, kP))
         IN  /\ AppState' = w.AppState
             /\ intervals' = w.intervals
    /\ emitted' = <<>>
    /\ last' = Did("visibilityVisible")
    /\ period' = "idle"
    /\ UNCHANGED <<Config, pc, stageCards, timeouts, modeUi>>

\* Mutant of cleanup: every live interval is cancelled, recorded or not.
cleanupAll ==
    /\ intervals' = {}
    /\ emitted' = <<>>
    /\ last' = [op |-> "cleanup", mode |-> AppState.currentMode,
                from |-> AppState.currentMode]
    /\ UNCHANGED <<Config, period, pc, hidden, stageCards, AppState, timeouts, modeUi>>

\* cleanup() through window.IoTApp.cleanup, or on a beforeunload that the
\* page survives.  Both are installed when the script is loaded, so cleanup
\* can run before init has started any timer.
cleanup ==
    /\ intervals' = cleanupIntervals(World).intervals
    /\ emitted' = <<>>
    /\ last' = Did("cleanup")
    /\ UNCHANGED <<Config, period, pc, hidden, stageCards, AppState, timeouts, modeUi>>

\* updateDisplay() through window.IoTApp.updateDisplay.
apiUpdateDisplay ==
    /\ pc = "ready"
    /\ emitted' = <<updateDisplay(AppState)>>
    /\ last' = Did("updateDisplay")
    /\ UNCHANGED <<Config, period, pc, hidden, stageCards, AppState, intervals, timeouts, modeUi>>

Next ==
    \/ init
    \/ \E mode \in Modes : switchMode(mode)
    \/ transitionTimeout
    \/ temperatureTick
    \/ pirTick
    \/ animationTick
    \/ visibilityHidden
    \/ visibilityVisible
    \/ cleanup
    \/ apiUpdateDisplay

Spec == Init /\ [][Next]_vars

(***************************************************************************)
(* The page with window.IoTApp.switchMode called from outside the page's    *)
(* own buttons: the exported function takes any value; "other" stands for   *)
(* every value that is neither 'analog' nor 'digital'.                      *)
(***************************************************************************)
ApiValues == Modes \cup {"other"}

ApiNext ==
    \/ Next
    \/ \E mode \in ApiValues \ Modes : switchMode(mode)

ApiSpec == Init /\ [][ApiNext]_vars

(***************************************************************************)
(* The page loaded with a Config whose ADC_BITS is the shipped value or 0.  *)
(***************************************************************************)
CfgInit == \E adcBits \in {0, ADC_BITS} : InitWith(adcBits)

CfgSpec == CfgInit /\ [][Next]_vars

(***************************************************************************)
(* The sampler and encoder alone, over a finer grid of Math.random():       *)
(* k / EncSteps, that is temperatures in steps of (TEMP_MAX - TEMP_MIN) /   *)
(* EncSteps.  Each action is the body of one interval callback for its      *)
(* mode: sample, encode, render.                                            *)
(***************************************************************************)
EncRandoms == 0 .. (EncSteps - 1)

EncInit ==
    /\ Init
    /\ ~hidden
    /\ stageCards = 1

sampleAnalog ==
    /\ \E k \in EncRandoms :
         /\ AppState' = [AppState EXCEPT !.data = updateTemperatureDataOf(@, k, EncSteps)]
         /\ emitted' = <<updateAnalogDisplay(AppState'.data)>>
    /\ last' = Did("sampleAnalog")
    /\ UNCHANGED <<Config, period, pc, hidden, stageCards, intervals, timeouts, modeUi>>

sampleDigital ==
    /\ \E k \in EncRandoms :
         /\ AppState' = [AppState EXCEPT !.data = updatePIRDataOf(@, k, EncSteps)]
         /\ emitted' = <<updateDigitalDisplay(AppState'.data)>>
    /\ last' = Did("sampleDigital")
    /\ UNCHANGED <<Config, period, pc, hidden, stageCards, intervals, timeouts, modeUi>>

EncNext ==
    \/ sampleAnalog
    \/ sampleDigital

EncSpec == EncInit /\ [][EncNext]_vars

(***************************************************************************)
(* Properties.  last and emitted describe the step that led to the current *)
(* state, so a property of one handler's run is either a predicate on the  *)
(* state that run produced or an action property on the step.              *)
(***************************************************************************)
ActiveMode == AppState.currentMode
Live(kind) == {t \in intervals : t.kind = kind}

\* C1: switchMode(m) with m different from the active mode sets the active
\* mode to m and emits, in that same step, exactly one frame of mode m.
C1_SwitchEmitsOneFrame ==
    (last.op = "switchMode" /\ last.mode # last.from)
        => /\ ActiveMode = last.mode
           /\ Len(emitted) = 1
           /\ emitted[1].branch = last.mode

\* C2: switchMode(m) while the active mode is already m is a no-op: no frame
\* is emitted, no interval or timeout is created or cancelled, and the mode,
\* the sampled data, the stage pointer and the labels are unchanged.
C2_SwitchSameModeNoop ==
    [][(last'.op = "switchMode" /\ last'.mode = last'.from)
         => /\ emitted' = <<>>
            /\ UNCHANGED <<Config, AppState, intervals, timeouts, modeUi, hidden, pc, stageCards>>]_vars

C2_Witness ==
    /\ last.op = "switchMode"
    /\ last.mode = last.from
    /\ last.mode = "digital"
    /\ intervals # {}

\* C3: every frame emitted is built from the branch of the mode that is
\* active when it is emitted; no frame of another mode is emitted, whatever
\* the interleaving of timers, mode switches, suspension and resumption.
C3_FrameOfActiveMode ==
    \A i \in 1 .. Len(emitted) : emitted[i].branch = ActiveMode

C3_Witness ==
    /\ last.op = "pirTick"
    /\ Len(emitted) = 1
    /\ ActiveMode = "digital"
    /\ Cardinality(Live("temperature")) = 2

\* C4: a temperature-timer firing while the mode is digital, and a PIR-timer
\* firing while the mode is analog, change no data field and emit no frame.
C4_InactiveTickNoop ==
    [][(\/ last'.op = "temperatureTick" /\ ActiveMode = "digital"
        \/ last'.op = "pirTick" /\ ActiveMode = "analog")
         => /\ AppState' = AppState
            /\ emitted' = <<>>]_vars

C4_Witness ==
    /\ last.op = "temperatureTick"
    /\ ActiveMode = "digital"
    /\ emitted = <<>>

\* C5: each of the three cycles has at most one live interval timer, and
\* every live timer is the one recorded in AppState.updateIntervals.
C5_TimersTracked ==
    /\ \A k \in Kinds : Cardinality(Live(k)) <= 1
    /\ \A t \in intervals : AppState.updateIntervals[t.kind] = t.id

\* C6: once the page is hidden and cleanup has run, no interval timer is
\* live.
C6_NoTimerAfterSuspension ==
    last.op = "visibilityHidden" => intervals = {}

\* C7: on resumption a complete sampling tick runs at once: one frame of the
\* active mode is emitted by the visibilitychange handler.
C7_ResumeEmitsFrame ==
    last.op = "visibilityVisible"
        => /\ Len(emitted) = 1
           /\ emitted[1].branch = ActiveMode

\* C8: every analog frame shows one sample: the temperature, the voltage
\* 2.0 + (temperature - TEMP_MIN) * 0.1 of that temperature, and the code
\* floor(voltage / VREF * ADC_MAX) of that voltage.
C8_AnalogFrameConsistent ==
    \A i \in 1 .. Len(emitted) :
        emitted[i].branch = "analog" =>
            \E k \in Randoms :
                LET t == TEMP_MIN * 100 + (k * (TEMP_MAX - TEMP_MIN) * 100) \div RandSteps
                    v == 2000 + (t - TEMP_MIN * 100)
                    code == (v * ADC_MAX) \div VOLTAGE_REF_mV
                IN  /\ emitted[i].sensorValue = toFixed1(t) \o "C"
                    /\ emitted[i].sensorVoltage = toFixed2(v) \o "V"
                    /\ emitted[i].adcValue = code
                    /\ emitted[i].binaryValue = padStart(toString2(code), ADC_BITS)
                    /\ emitted[i].appDisplay = emitted[i].sensorValue

C8_Witness ==
    /\ last.op = "temperatureTick"
    /\ Len(emitted) = 1
    /\ emitted[1].branch = "analog"
    /\ emitted[1].adcValue # 2481

\* C9: the stage pointer is always within 0 .. N-1, N the number of stage
\* cards.
C9_StagePointerInRange ==
    /\ AppState.data.activeStage >= 0
    /\ AppState.data.activeStage < stageCards

C9_Witness ==
    /\ last.op = "animationTick"
    /\ stageCards = MaxStages
    /\ AppState.data.activeStage = stageCards - 1

\* C10: each stage tick moves the pointer from p to (p + 1) mod N: it
\* changes whenever N > 1 and wraps from N-1 to 0.
C10_StageAdvancesByOne ==
    [][last'.op = "animationTick"
         => /\ AppState'.data.activeStage = (AppState.data.activeStage + 1) % stageCards
            /\ (AppState.data.activeStage = stageCards - 1
                  => AppState'.data.activeStage = 0)
            /\ (AppState.data.activeStage < stageCards - 1
                  => AppState'.data.activeStage = AppState.data.activeStage + 1)]_vars

C10_Witness ==
    /\ last.op = "animationTick"
    /\ stageCards = MaxStages
    /\ AppState.data.activeStage = 0

\* C11: the stage cycle is independent of the mode and of the sampling
\* cycle: switchMode and the sampling-timer callbacks leave activeStage
\* unchanged; a stage tick leaves the mode and the sampled data unchanged and
\* emits no frame.
C11_StageIndependent ==
    [][/\ last'.op \in {"switchMode", "temperatureTick", "pirTick"}
            => AppState'.data.activeStage = AppState.data.activeStage
       /\ last'.op = "animationTick"
            => /\ AppState'.currentMode = AppState.currentMode
               /\ AppState'.data.temperature = AppState.data.temperature
               /\ AppState'.data.voltage = AppState.data.voltage
               /\ AppState'.data.adcValue = AppState.data.adcValue
               /\ AppState'.data.pirDetected = AppState.data.pirDetected
               /\ emitted' = <<>>]_vars

C11_Witness ==
    /\ last.op = "animationTick"
    /\ ActiveMode = "digital"
    /\ AppState.data.activeStage = 1
    /\ AppState.data.pirDetected = FALSE

AnalogFrames == {emitted[i] : i \in {j \in 1 .. Len(emitted) : emitted[j].branch = "analog"}}
DigitalFrames == {emitted[i] : i \in {j \in 1 .. Len(emitted) : emitted[j].branch = "digital"}}

\* C12 as stated: a reading of 22.5 degrees is encoded to 2.25 V, code 2790
\* and bits 101011100110.
C12_Reading225 ==
    \A f \in AnalogFrames :
        AppState.data.temperature = 2250 =>
            /\ AppState.data.voltage = 2250
            /\ f.sensorVoltage = "2.25V"
            /\ f.adcValue = 2790
            /\ f.binaryValue = <<"1","0","1","0","1","1","1","0","0","1","1","0">>

\* C12 amended: a reading of 22.5 degrees is encoded to 2.25 V, code
\* floor(2.25 / 3.3 * 4095) = 2792 and bits 101011101000.
C12_Reading225Amended ==
    \A f \in AnalogFrames :
        AppState.data.temperature = 2250 =>
            /\ AppState.data.voltage = 2250
            /\ f.sensorValue = "22.5C"
            /\ f.sensorVoltage = "2.25V"
            /\ f.adcValue = 2792
            /\ f.binaryValue = <<"1","0","1","0","1","1","1","0","1","0","0","0">>

C12_Witness ==
    /\ last.op = "sampleAnalog"
    /\ AnalogFrames # {}
    /\ AppState.data.temperature = 2250

\* C13: the ADC code is an integer in 0 .. 2^ADC_BITS - 1 in every state,
\* for every temperature sample in [TEMP_MIN, TEMP_MAX).
C13_CodeInRange ==
    /\ AppState.data.adcValue \in 0 .. ADC_MAX
    /\ ADC_MAX = 2 ^ ADC_BITS - 1
    /\ AppState.data.temperature >= TEMP_MIN * 100
    /\ AppState.data.temperature < TEMP_MAX * 100

C13_Witness ==
    /\ last.op = "sampleAnalog"
    /\ AppState.data.temperature
         = TEMP_MIN * 100 + ((EncSteps - 1) * (TEMP_MAX - TEMP_MIN) * 100) \div EncSteps
    /\ AppState.data.adcValue > 3000

\* C14: the bits string of every rendered ADC code has exactly ADC_BITS
\* characters, each '0' or '1'.
C14_BitsWidth ==
    \A f \in AnalogFrames :
        /\ Len(f.binaryValue) = ADC_BITS
        /\ \A i \in 1 .. Len(f.binaryValue) : f.binaryValue[i] \in {"0", "1"}

C14_Witness ==
    /\ last.op = "sampleAnalog"
    /\ AnalogFrames # {}
    /\ AppState.data.adcValue = 2481

\* C15 as stated: detected = true yields HIGH, VREF, '1' and the label
\* "Motion"; detected = false yields LOW, 0 V, '0' and the label "None".
C15_DigitalEncoding ==
    LET vref == ToString(VOLTAGE_REF_mV \div 1000) \o "."
                    \o ToString((VOLTAGE_REF_mV % 1000) \div 100) \o "V"
    IN  \A f \in DigitalFrames :
            IF AppState.data.pirDetected
            THEN /\ f.gpioState = "HIGH" /\ f.sensorState = "HIGH"
                 /\ f.gpioVoltage = vref /\ f.sensorVoltage = vref
                 /\ f.pirBinary = "1" /\ f.pirPayloadBit = "1"
                 /\ f.sensorValue = "Motion" /\ f.appDisplay = "Motion"
            ELSE /\ f.gpioState = "LOW" /\ f.sensorState = "LOW"
                 /\ f.gpioVoltage = "0V" /\ f.sensorVoltage = "0V"
                 /\ f.pirBinary = "0" /\ f.pirPayloadBit = "0"
                 /\ f.sensorValue = "None" /\ f.appDisplay = "None"

\* C15 amended: the same, with the labels the code writes: "Mouvement" for
\* detected = true and "Aucun" for detected = false.
C15_DigitalEncodingAmended ==
    LET vref == ToString(VOLTAGE_REF_mV \div 1000) \o "."
                    \o ToString((VOLTAGE_REF_mV % 1000) \div 100) \o "V"
    IN  \A f \in DigitalFrames :
            IF AppState.data.pirDetected
            THEN /\ f.gpioState = "HIGH" /\ f.sensorState = "HIGH"
                 /\ f.gpioVoltage = vref /\ f.sensorVoltage = vref
                 /\ f.pirBinary = "1" /\ f.pirPayloadBit = "1"
                 /\ f.sensorValue = "Mouvement" /\ f.appDisplay = "Mouvement"
            ELSE /\ f.gpioState = "LOW" /\ f.sensorState = "LOW"
                 /\ f.gpioVoltage = "0V" /\ f.sensorVoltage = "0V"
                 /\ f.pirBinary = "0" /\ f.pirPayloadBit = "0"
                 /\ f.sensorValue = "Aucun" /\ f.appDisplay = "Aucun"

C15_Witness ==
    /\ last.op = "sampleDigital"
    /\ DigitalFrames # {}
    /\ AppState.data.pirDetected = FALSE

\* C16: the active mode is always one of analog and digital: initially
\* analog, and still one of the two after any calls of the exported
\* switchMode, timer firings, suspension and resumption.
C16_ModeIsAnalogOrDigital ==
    /\ AppState.currentMode \in Modes
    /\ pc = "loading" => AppState.currentMode = "analog"

\* C17: cancellation is idempotent: cleanup run when the timers were never
\* started, or when every recorded timer is already cancelled, changes
\* nothing: the mode, the sampled data, the stage pointer, the handles and
\* the set of live timers stay as they are, and no frame is emitted.
C17_CleanupIdempotent ==
    [][(/\ last'.op = "cleanup"
        /\ \A t \in intervals : \A k \in Kinds : AppState.updateIntervals[k] # t.id)
         => /\ UNCHANGED <<Config, AppState, intervals, timeouts, modeUi, hidden, pc, stageCards>>
            /\ emitted' = <<>>]_vars

C17_Witness ==
    /\ last.op = "cleanup"
    /\ pc = "loading"
    /\ \A k \in Kinds : AppState.updateIntervals[k] = null

\* C18: a Config that violates an invariant is rejected at construction:
\* with ADC_BITS = 0 there is no running engine, that is init does not
\* complete, no timer is started and no frame is emitted.
C18_InvalidConfigRejected ==
    Config.ADC_BITS < 1
        => /\ pc # "ready"
           /\ intervals = {}
           /\ emitted = <<>>

\* C19: every sampling period emits exactly one frame: of the temperature
\* firing that opens the period and the PIR firing that closes it exactly
\* one performs sample+encode+emit, whatever ran between the two.
C19_OneFramePerPeriod ==
    [][(last'.op = "pirTick" /\ period # "idle")
         => ((period = "emitted") # (emitted' # <<>>))]_vars

====
